---- MODULE Spec2Model ----
(***************************************************************************)
(* Model of src/main.py: the POST /api-endpoint handler (api_endpoint),    *)
(* the evaluator notifier (notify_evaluator), the hosting activator        *)
(* (enable_github_pages) and the fence stripper (clean_llm_html), run      *)
(* against a repository host, a content generator and an evaluator that    *)
(* may answer with any status or fail at transport level.                  *)
(*                                                                         *)
(* Text is modelled as a sequence of tokens (one-character strings for the *)
(* e-mail and the task, markup tokens for the generated page), so that     *)
(* strip(), lower(), the f-string of the repository name and the fence     *)
(* regex are computed, not assumed.                                        *)
(***************************************************************************)
EXTENDS Integers, Sequences, FiniteSets, TLC

\* ---------------------------------------------------------------- bounds
MaxRequests == 2      \* requests the service receives in one behaviour
MaxRound    == 2      \* largest round number a request carries

\* ------------------------------------------------------- program constants
MaxAttempts  == 5     \* for attempt in range(5)
InitialDelay == 1     \* delay = 1
Backoff      == 2     \* delay *= 2
HttpOk       == 200
HttpCreated  == 201

\* ------------------------------------------------------------ environment
STUDENT_SECRET         == "s3cret"
ALLOWED_EMAIL          == <<"M", "e">>
GITHUB_OWNER           == "owner"
EVALUATION_URL_DEFAULT == "default-evaluator"

Procs == {1, 2}

\* ------------------------------------------------------------ str helpers
IsSpace(c) == c = " "

LowerChar(c) ==
    CASE c = "M" -> "m"
      [] c = "E" -> "e"
      [] c = "D" -> "d"
      [] OTHER   -> c

\* str.lower()
Lower(s) == [i \in 1..Len(s) |-> LowerChar(s[i])]

RECURSIVE LStrip(_)
LStrip(s) == IF s # <<>> /\ IsSpace(Head(s)) THEN LStrip(Tail(s)) ELSE s

RECURSIVE RStrip(_)
RStrip(s) ==
    IF s # <<>> /\ IsSpace(s[Len(s)]) THEN RStrip(SubSeq(s, 1, Len(s) - 1)) ELSE s

\* str.strip()
Strip(s) == RStrip(LStrip(s))

Digit(d) ==
    CASE d = 0 -> "0" [] d = 1 -> "1" [] d = 2 -> "2" [] d = 3 -> "3"
      [] d = 4 -> "4" [] d = 5 -> "5" [] d = 6 -> "6" [] d = 7 -> "7"
      [] d = 8 -> "8" [] d = 9 -> "9"

RECURSIVE NatStr(_)
NatStr(n) == IF n < 10 THEN <<Digit(n)>> ELSE NatStr(n \div 10) \o <<Digit(n % 10)>>

\* str(int) as the f-strings format round_num
IntStr(n) == IF n < 0 THEN <<"-">> \o NatStr(0 - n) ELSE NatStr(n)

\* RepoName pinned to round 1, whatever the round of the request
RepoName_Pinned(task, round_num) ==
    task \o <<"-", "r", "o", "u", "n", "d">> \o IntStr(1)

\* repo_name = f"{task}-round{round_num}"
RepoName(task, round_num) ==
    task \o <<"-", "r", "o", "u", "n", "d">> \o IntStr(round_num)

\* pages_url = f"https://{GITHUB_OWNER}.github.io/{repo_name}/"
PagesUrl(repo_name) == <<"https://", GITHUB_OWNER, ".github.io/">> \o repo_name \o <<"/">>

\* html_url / clone_url as the repository host reports them
HtmlUrl(repo_name)  == <<"https://", "github.com/", GITHUB_OWNER, "/">> \o repo_name
CloneUrl(repo_name) == HtmlUrl(repo_name) \o <<".git">>

\* clone_url.replace("https://", f"https://{GITHUB_TOKEN}@")
AuthedCloneUrl(clone_url) ==
    [i \in 1..Len(clone_url) |->
        IF clone_url[i] = "https://" THEN "https://token@" ELSE clone_url[i]]

\* ------------------------------------------------------- clean_llm_html
\* the token standing for a run of three backquotes
Fence == "<fence>"
IsHtmlTag(t) == t \in {"html", "HTML"}

\* index of the first fence at or after position i, 0 when there is none
RECURSIVE NextFence(_, _)
NextFence(text, i) ==
    IF i > Len(text) THEN 0
    ELSE IF text[i] = Fence THEN i
    ELSE NextFence(text, i + 1)

\* re.search of fence, optional html tag, shortest run of anything, fence
\* (DOTALL | IGNORECASE); group 1 when it matches, else the text; then strip()
clean_llm_html(text) ==
    LET open  == NextFence(text, 1)
        start == IF open # 0 /\ open + 1 <= Len(text) /\ IsHtmlTag(text[open + 1])
                 THEN open + 2 ELSE open + 1
        close == IF open = 0 THEN 0 ELSE NextFence(text, start)
    IN  IF close # 0 THEN Strip(SubSeq(text, start, close - 1)) ELSE Strip(text)

\* ------------------------------------------------------------ request data
\* values of the fields of TaskRequest the requests are drawn from
Secrets  == {STUDENT_SECRET, "wrong"}
Emails   == {<<" ", "m", "E", " ">>, <<"y", "o", "u">>, <<" ">>}
Tasks    == {<<" ", "d", " ">>, <<" ">>, <<>>}
Rounds   == 0..MaxRound
Nonces   == {"abc"}
Briefs   == {<<"say hi">>, <<"say bye">>}
EvalUrls == {"None", "custom-evaluator"}

\* class TaskRequest(BaseModel)
TaskRequest ==
    [email : Emails, secret : Secrets, task : Tasks, round : Rounds,
     nonce : Nonces, brief : Briefs, evaluation_url : EvalUrls]

\* texts the generator may return for a prompt: the page bare, fenced with
\* prose around it, and padded with whitespace
RawTexts ==
    { <<"<p>">>,
      <<"Here:", Fence, "html", " ", "<p>", " ", Fence, "Enjoy">>,
      <<" ", "<p>", " ">> }

\* the locals api_endpoint derives from the request body
EmailOf(r)    == Strip(r.email)
TaskOf(r)     == Strip(r.task)
RoundOf(r)    == r.round
EvalUrlOf(r)  == IF r.evaluation_url \in {"None", ""}
                 THEN EVALUATION_URL_DEFAULT ELSE r.evaluation_url
RepoNameOf(r) == RepoName(TaskOf(r), RoundOf(r))

\* the README.md text api_endpoint writes
ReadmeText(r) ==
    <<"# ">> \o RepoNameOf(r) \o <<"\n\nAuto-generated for **">> \o TaskOf(r)
      \o <<"** round **">> \o IntStr(RoundOf(r)) \o <<"**.\n\nBrief:\n\n", Fence, "\n">>
      \o r.brief \o <<"\n", Fence>>

LicenseText == <<"MIT License\n\nCopyright (c) 2025">>

\* CommitMsg with the two messages swapped
CommitMsg_Swapped(upd, round_num) ==
    IF upd THEN <<"initial commit">>
    ELSE <<"round ">> \o IntStr(round_num) \o <<" update">>

\* commit_msg = "initial commit" if not is_update else f"round {round_num} update"
CommitMsg(upd, round_num) ==
    IF ~upd THEN <<"initial commit">>
    ELSE <<"round ">> \o IntStr(round_num) \o <<" update">>

\* Payload that reports the job as still pending
Payload_Pending(r, url) ==
    [email |-> EmailOf(r), task |-> TaskOf(r), round |-> RoundOf(r),
     nonce |-> r.nonce, repo_url |-> url, commit_sha |-> "main",
     pages_url |-> PagesUrl(RepoNameOf(r)), status |-> "pending"]

\* the payload api_endpoint hands to notify_evaluator
Payload(r, url) ==
    [email |-> EmailOf(r), task |-> TaskOf(r), round |-> RoundOf(r),
     nonce |-> r.nonce, repo_url |-> url, commit_sha |-> "main",
     pages_url |-> PagesUrl(RepoNameOf(r)), status |-> "success"]

\* ------------------------------------------------------------------ state
VARIABLES
    pc,            \* where each worker's api_endpoint call stands
    req,           \* data: the request body being handled
    resp,          \* the JSON response returned to the caller
    error,         \* the exception raised while handling the request
    calls,         \* the external calls the request has made, in order
    html,          \* html: the cleaned generator output
    is_update,     \* is_update
    repo_url,      \* repo_url
    clone_url,     \* clone_url
    create_status, \* r.status_code of the create request
    existed,       \* whether the repository was on the host when it was queried
    tmp,           \* the TemporaryDirectory of the publish block
    pushed,        \* what the request's git push replaced and what it put there
    pages_status,  \* enable_github_pages: r.status_code
    payload,       \* payload
    attempt,       \* notify_evaluator: attempt
    delay,         \* notify_evaluator: delay
    waited,        \* notify_evaluator: time slept so far
    delivered,     \* notify_evaluator: returned on a 200
    host,          \* the repositories on the repository host, by name
    served         \* requests received so far

reqVars     == <<req, served>>
resolveVars == <<is_update, repo_url, clone_url, create_status, existed>>
notifyVars  == <<payload, attempt, delay, waited, delivered>>

vars == <<pc, resp, error, calls, html, tmp, pushed, pages_status, host,
          reqVars, resolveVars, notifyVars>>

None == [tag |-> "none"]

\* a JSONResponse / returned dict
ErrorResponse(code, kind) == [status_code |-> code, error |-> kind]
\* what the framework answers when api_endpoint lets an exception escape
UnhandledResponse == [status_code |-> 500, error |-> "Internal Server Error"]
SuccessResponse(url, r) ==
    [status_code |-> 200, status |-> "success", repo_url |-> url,
     pages_url |-> PagesUrl(RepoNameOf(r))]

\* an exception of the given type raised by the given call
Exc(type, at) == [type |-> type, at |-> at]

\* a repository as auto_init creates it
AutoInitRepo(name) ==
    [head    |-> 1,
     files   |-> [f \in {"README.md"} |-> <<"# ">> \o name],
     message |-> <<"Initial commit">>]

\* open(path, "w").write(text) in a working tree
WriteFile(files, path, text) ==
    [f \in DOMAIN files \cup {path} |-> IF f = path THEN text ELSE files[f]]

Init ==
    /\ pc            = [p \in Procs |-> "idle"]
    /\ req           = [p \in Procs |-> None]
    /\ resp          = [p \in Procs |-> None]
    /\ error         = [p \in Procs |-> None]
    /\ calls         = [p \in Procs |-> <<>>]
    /\ html          = [p \in Procs |-> <<>>]
    /\ is_update     = [p \in Procs |-> FALSE]
    /\ repo_url      = [p \in Procs |-> <<>>]
    /\ clone_url     = [p \in Procs |-> <<>>]
    /\ create_status = [p \in Procs |-> 0]
    /\ existed       = [p \in Procs |-> FALSE]
    /\ tmp           = [p \in Procs |-> None]
    /\ pushed        = [p \in Procs |-> None]
    /\ pages_status  = [p \in Procs |-> 0]
    /\ payload       = [p \in Procs |-> None]
    /\ attempt       = [p \in Procs |-> 0]
    /\ delay         = [p \in Procs |-> 0]
    /\ waited        = [p \in Procs |-> 0]
    /\ delivered     = [p \in Procs |-> FALSE]
    /\ host          = [n \in {} |-> None]
    /\ served        = 0

\* ------------------------------------------------------- control helpers
Goto(p, label) == /\ pc' = [pc EXCEPT ![p] = label]
                  /\ UNCHANGED <<resp, error>>
Call(p, what)  == calls' = [calls EXCEPT ![p] = Append(@, what)]
\* return a response
Return(p, r)   == /\ resp' = [resp EXCEPT ![p] = r]
                  /\ pc'   = [pc EXCEPT ![p] = "done"]
                  /\ UNCHANGED error
\* exception e ends the call with response r
Raise(p, e, r) == /\ error' = [error EXCEPT ![p] = e]
                  /\ resp'  = [resp EXCEPT ![p] = r]
                  /\ pc'    = [pc EXCEPT ![p] = "done"]

\* the worker a new request is dispatched to: the lowest idle one
IdleWorker(p) == /\ pc[p] = "idle"
                 /\ \A q \in Procs : pc[q] = "idle" => p <= q

\* POST /api-endpoint arrives with body r
Receive(p, r) ==
    /\ IdleWorker(p)
    /\ served < MaxRequests
    /\ served' = served + 1
    /\ req'    = [req EXCEPT ![p] = r]
    /\ Goto(p, "auth")
    /\ UNCHANGED <<calls, html, tmp, pushed, pages_status, host,
                   resolveVars, notifyVars>>

\* Authenticate with the secret comparison left out
Authenticate_NoSecretCheck(p) ==
    /\ pc[p] = "auth"
    /\ Goto(p, "validate")
    /\ UNCHANGED <<calls, html, tmp, pushed, pages_status, host,
                   reqVars, resolveVars, notifyVars>>

\* 1: if data.get("secret") != STUDENT_SECRET: return 403
Authenticate(p) ==
    /\ pc[p] = "auth"
    /\ IF req[p].secret # STUDENT_SECRET
       THEN Return(p, ErrorResponse(403, "Invalid secret"))
       ELSE Goto(p, "validate")
    /\ UNCHANGED <<calls, html, tmp, pushed, pages_status, host,
                   reqVars, resolveVars, notifyVars>>

\* Validate without the test of task
Validate_NoTaskCheck(p) ==
    /\ pc[p] = "validate"
    /\ IF EmailOf(req[p]) = <<>> \/ Lower(EmailOf(req[p])) # Lower(ALLOWED_EMAIL)
       THEN Return(p, ErrorResponse(400, "Invalid email"))
       ELSE Goto(p, "generate")
    /\ UNCHANGED <<calls, html, tmp, pushed, pages_status, host,
                   reqVars, resolveVars, notifyVars>>

\* 2: the email and task checks
Validate(p) ==
    /\ pc[p] = "validate"
    /\ IF EmailOf(req[p]) = <<>> \/ Lower(EmailOf(req[p])) # Lower(ALLOWED_EMAIL)
       THEN Return(p, ErrorResponse(400, "Invalid email"))
       ELSE IF TaskOf(req[p]) = <<>>
       THEN Return(p, ErrorResponse(400, "Missing 'task'."))
       ELSE Goto(p, "generate")
    /\ UNCHANGED <<calls, html, tmp, pushed, pages_status, host,
                   reqVars, resolveVars, notifyVars>>

\* Generate whose except block logs the failure and forgets to return
Generate_NoReturn(p) ==
    /\ pc[p] = "generate"
    /\ Call(p, "generate")
    /\ \/ \E raw \in RawTexts :
             /\ html' = [html EXCEPT ![p] = clean_llm_html(raw)]
             /\ Goto(p, "repo_get")
       \/ /\ error' = [error EXCEPT ![p] = Exc("Exception", "generate")]
          /\ pc'    = [pc EXCEPT ![p] = "repo_get"]
          /\ UNCHANGED <<resp, html>>
    /\ UNCHANGED <<tmp, pushed, pages_status, host,
                   reqVars, resolveVars, notifyVars>>

\* 3: client.chat.completions.create, clean_llm_html; except Exception: 500
Generate(p) ==
    /\ pc[p] = "generate"
    /\ Call(p, "generate")
    /\ \/ \E raw \in RawTexts :
             /\ html' = [html EXCEPT ![p] = clean_llm_html(raw)]
             /\ Goto(p, "repo_get")
       \/ /\ Raise(p, Exc("Exception", "generate"),
                   ErrorResponse(500, "OpenAI generation failed"))
          /\ UNCHANGED html
    /\ UNCHANGED <<tmp, pushed, pages_status, host,
                   reqVars, resolveVars, notifyVars>>

\* statuses the repository host may answer the existence query with
GetStatuses(name) == IF name \in DOMAIN host THEN {HttpOk, 503} ELSE {404}

\* 4: existing_repo = requests.get(.../repos/{owner}/{repo_name})
RepoGet(p) ==
    /\ pc[p] = "repo_get"
    /\ Call(p, "repo_get")
    /\ existed' = [existed EXCEPT ![p] = RepoNameOf(req[p]) \in DOMAIN host]
    /\ LET name == RepoNameOf(req[p]) IN
       \/ \E status \in GetStatuses(name) :
             /\ is_update' = [is_update EXCEPT ![p] = (status = HttpOk)]
             /\ IF status = HttpOk
                THEN /\ repo_url'  = [repo_url EXCEPT ![p] = HtmlUrl(name)]
                     /\ clone_url' = [clone_url EXCEPT ![p] = CloneUrl(name)]
                     /\ Goto(p, "clone")
                ELSE /\ UNCHANGED <<repo_url, clone_url>>
                     /\ Goto(p, "repo_create")
       \/ \* requests.get raises: nothing in api_endpoint catches it
          /\ Raise(p, Exc("RequestException", "repo_get"), UnhandledResponse)
          /\ UNCHANGED <<is_update, repo_url, clone_url>>
    /\ UNCHANGED <<html, create_status, tmp, pushed, pages_status, host,
                   reqVars, notifyVars>>

\* a host that accepts a create request for a name that is already taken
CreateStatuses_NoNameCheck(name) == {HttpCreated, 403, 422}

\* statuses the repository host may answer a create request with: it creates
\* the repository (201) only when the name is free, and may reject any request
CreateStatuses(name) ==
    IF name \in DOMAIN host THEN {403, 422} ELSE {HttpCreated, 403, 422}

\* RepoCreate without the test of r.status_code
RepoCreate_NoStatusCheck(p) ==
    /\ pc[p] = "repo_create"
    /\ Call(p, "repo_create")
    /\ LET name == RepoNameOf(req[p]) IN
       \/ \E status \in CreateStatuses(name) :
             /\ create_status' = [create_status EXCEPT ![p] = status]
             /\ host' = IF status = HttpCreated
                        THEN [n \in DOMAIN host \cup {name} |->
                                 IF n = name THEN AutoInitRepo(name) ELSE host[n]]
                        ELSE host
             /\ repo_url'  = [repo_url EXCEPT ![p] = HtmlUrl(name)]
             /\ clone_url' = [clone_url EXCEPT ![p] = CloneUrl(name)]
             /\ Goto(p, "clone")
       \/ /\ Raise(p, Exc("RequestException", "repo_create"), UnhandledResponse)
          /\ UNCHANGED <<host, create_status, repo_url, clone_url>>
    /\ UNCHANGED <<html, is_update, existed, tmp, pushed, pages_status,
                   reqVars, notifyVars>>

\* 4: r = requests.post(.../user/repos, auto_init); if r.status_code != 201: 500
RepoCreate(p) ==
    /\ pc[p] = "repo_create"
    /\ Call(p, "repo_create")
    /\ LET name == RepoNameOf(req[p]) IN
       \/ \E status \in CreateStatuses(name) :
             /\ create_status' = [create_status EXCEPT ![p] = status]
             /\ host' = IF status = HttpCreated
                        THEN [n \in DOMAIN host \cup {name} |->
                                 IF n = name THEN AutoInitRepo(name) ELSE host[n]]
                        ELSE host
             /\ IF status # HttpCreated
                THEN /\ Return(p, ErrorResponse(500, "GitHub repo creation failed"))
                     /\ UNCHANGED <<repo_url, clone_url>>
                ELSE /\ repo_url'  = [repo_url EXCEPT ![p] = HtmlUrl(name)]
                     /\ clone_url' = [clone_url EXCEPT ![p] = CloneUrl(name)]
                     /\ Goto(p, "clone")
       \/ \* requests.post raises
          /\ Raise(p, Exc("RequestException", "repo_create"), UnhandledResponse)
          /\ UNCHANGED <<host, create_status, repo_url, clone_url>>
    /\ UNCHANGED <<html, is_update, existed, tmp, pushed, pages_status,
                   reqVars, notifyVars>>

\* GitError whose except block logs the error and forgets to return
GitError_NoReturn(p, what) ==
    /\ tmp'   = [tmp EXCEPT ![p] = None]
    /\ error' = [error EXCEPT ![p] = Exc("CalledProcessError", what)]
    /\ pc'    = [pc EXCEPT ![p] = "pages"]
    /\ UNCHANGED resp

\* except subprocess.CalledProcessError: leave the with block, return 500
GitError(p, what) ==
    /\ tmp' = [tmp EXCEPT ![p] = None]
    /\ Raise(p, Exc("CalledProcessError", what), ErrorResponse(500, "Git error"))

\* one git subprocess that changes nothing the model tracks
GitStep(p, here, what, next) ==
    /\ pc[p] = here
    /\ Call(p, what)
    /\ \/ Goto(p, next) /\ UNCHANGED tmp
       \/ GitError(p, what)
    /\ UNCHANGED <<html, pushed, pages_status, host,
                   reqVars, resolveVars, notifyVars>>

\* Clone that tries the clone again when it fails
Clone_Retry(p) ==
    /\ pc[p] = "clone"
    /\ Call(p, "git_clone")
    /\ LET name == RepoNameOf(req[p]) IN
       \/ /\ tmp' = [tmp EXCEPT ![p] =
                        [remote |-> AuthedCloneUrl(clone_url[p]),
                         base   |-> host[name].head,
                         head   |-> host[name].files,
                         files  |-> host[name].files,
                         commit |-> <<>>]]
          /\ Goto(p, "config_email")
       \/ /\ Cardinality({i \in 1..Len(calls[p]) : calls[p][i] = "git_clone"}) < 2
          /\ Goto(p, "clone")
          /\ UNCHANGED tmp
       \/ GitError(p, "git_clone")
    /\ UNCHANGED <<html, pushed, pages_status, host,
                   reqVars, resolveVars, notifyVars>>

\* 5: with tempfile.TemporaryDirectory() as tmp: git clone authed_clone_url tmp
Clone(p) ==
    /\ pc[p] = "clone"
    /\ Call(p, "git_clone")
    /\ LET name == RepoNameOf(req[p]) IN
       \/ /\ tmp' = [tmp EXCEPT ![p] =
                        [remote |-> AuthedCloneUrl(clone_url[p]),
                         base   |-> host[name].head,
                         head   |-> host[name].files,
                         files  |-> host[name].files,
                         commit |-> <<>>]]
          /\ Goto(p, "config_email")
       \/ GitError(p, "git_clone")
    /\ UNCHANGED <<html, pushed, pages_status, host,
                   reqVars, resolveVars, notifyVars>>

\* git config user.email ALLOWED_EMAIL
ConfigEmail(p) == GitStep(p, "config_email", "git_config_email", "config_name")

\* git config user.name GITHUB_OWNER
ConfigName(p) == GitStep(p, "config_name", "git_config_name", "write")

\* WriteFiles with index.html and README.md opened in mode "a"
WriteFiles_Append(p) ==
    /\ pc[p] = "write"
    /\ Call(p, "write_files")
    /\ \/ /\ tmp' = [tmp EXCEPT ![p].files =
                        [f \in DOMAIN @ \cup {"index.html", "README.md", "LICENSE"} |->
                            CASE f = "index.html" ->
                                     (IF f \in DOMAIN @ THEN @[f] ELSE <<>>) \o html[p]
                              [] f = "README.md" ->
                                     (IF f \in DOMAIN @ THEN @[f] ELSE <<>>)
                                        \o ReadmeText(req[p])
                              [] f = "LICENSE" -> LicenseText
                              [] OTHER -> @[f]]]
          /\ Goto(p, "add")
       \/ /\ tmp' = [tmp EXCEPT ![p] = None]
          /\ Raise(p, Exc("OSError", "write_files"), UnhandledResponse)
    /\ UNCHANGED <<html, pushed, pages_status, host,
                   reqVars, resolveVars, notifyVars>>

\* the three open(..., "w") writes: index.html, README.md, LICENSE
WriteFiles(p) ==
    /\ pc[p] = "write"
    /\ Call(p, "write_files")
    /\ \/ /\ tmp' = [tmp EXCEPT ![p].files =
                        WriteFile(WriteFile(WriteFile(@, "index.html", html[p]),
                                            "README.md", ReadmeText(req[p])),
                                  "LICENSE", LicenseText)]
          /\ Goto(p, "add")
       \/ \* open or write raises OSError: not a CalledProcessError
          /\ tmp' = [tmp EXCEPT ![p] = None]
          /\ Raise(p, Exc("OSError", "write_files"), UnhandledResponse)
    /\ UNCHANGED <<html, pushed, pages_status, host,
                   reqVars, resolveVars, notifyVars>>

\* git add .
Add(p) == GitStep(p, "add", "git_add", "commit")

\* Commit that words the message by the round number
Commit_ByRound(p) ==
    /\ pc[p] = "commit"
    /\ Call(p, "git_commit")
    /\ \/ /\ tmp[p].files # tmp[p].head
          /\ tmp' = [tmp EXCEPT ![p].commit =
                        CommitMsg(RoundOf(req[p]) >= 2, RoundOf(req[p]))]
          /\ Goto(p, "push")
       \/ GitError(p, "git_commit")
    /\ UNCHANGED <<html, pushed, pages_status, host,
                   reqVars, resolveVars, notifyVars>>

\* git commit -m commit_msg: fails when the tree equals HEAD
Commit(p) ==
    /\ pc[p] = "commit"
    /\ Call(p, "git_commit")
    /\ \/ /\ tmp[p].files # tmp[p].head
          /\ tmp' = [tmp EXCEPT ![p].commit = CommitMsg(is_update[p], RoundOf(req[p]))]
          /\ Goto(p, "push")
       \/ GitError(p, "git_commit")
    /\ UNCHANGED <<html, pushed, pages_status, host,
                   reqVars, resolveVars, notifyVars>>

\* Push from a working directory that outlives the with block
Push_NoCleanup(p) ==
    /\ pc[p] = "push"
    /\ Call(p, "git_push")
    /\ LET name == RepoNameOf(req[p]) IN
       \/ /\ host[name].head = tmp[p].base
          /\ host' = [host EXCEPT ![name] =
                         [@ EXCEPT !.head    = @ + 1,
                                   !.files   = tmp[p].files,
                                   !.message = tmp[p].commit]]
          /\ pushed' = [pushed EXCEPT ![p] =
                           [previous |-> host[name].files,
                            files    |-> tmp[p].files,
                            message  |-> tmp[p].commit]]
          /\ Goto(p, "pages")
          /\ UNCHANGED tmp
       \/ /\ Raise(p, Exc("CalledProcessError", "git_push"),
                   ErrorResponse(500, "Git error"))
          /\ UNCHANGED <<tmp, host, pushed>>
    /\ UNCHANGED <<html, pages_status, reqVars, resolveVars, notifyVars>>

\* git push: accepted only as a fast-forward of the remote branch
Push(p) ==
    /\ pc[p] = "push"
    /\ Call(p, "git_push")
    /\ LET name == RepoNameOf(req[p]) IN
       \/ /\ host[name].head = tmp[p].base
          /\ host' = [host EXCEPT ![name] =
                         [@ EXCEPT !.head    = @ + 1,
                                   !.files   = tmp[p].files,
                                   !.message = tmp[p].commit]]
          /\ pushed' = [pushed EXCEPT ![p] =
                           [previous |-> host[name].files,
                            files    |-> tmp[p].files,
                            message  |-> tmp[p].commit]]
          /\ tmp' = [tmp EXCEPT ![p] = None]
          /\ Goto(p, "pages")
       \/ GitError(p, "git_push") /\ UNCHANGED <<host, pushed>>
    /\ UNCHANGED <<html, pages_status, reqVars, resolveVars, notifyVars>>

\* statuses the repository host may answer the hosting request with
PagesStatuses == {HttpCreated, 409}

\* 6: enable_github_pages(repo_name), then 7: build payload, enter the notifier
EnablePages(p) ==
    /\ pc[p] = "pages"
    /\ Call(p, "pages")
    /\ \/ \E status \in PagesStatuses :
             \* r.status_code is logged, whatever it is
             /\ pages_status' = [pages_status EXCEPT ![p] = status]
             /\ payload' = [payload EXCEPT ![p] = Payload(req[p], repo_url[p])]
             /\ attempt' = [attempt EXCEPT ![p] = 0]
             /\ delay'   = [delay EXCEPT ![p] = InitialDelay]
             /\ Goto(p, "notify_post")
       \/ \* requests.post raises: enable_github_pages has no try
          /\ Raise(p, Exc("RequestException", "pages"), UnhandledResponse)
          /\ UNCHANGED <<pages_status, payload, attempt, delay>>
    /\ UNCHANGED <<html, tmp, pushed, host, waited, delivered,
                   reqVars, resolveVars>>

\* NotifyPost without the try: a transport failure escapes the notifier
NotifyPost_NoTry(p) ==
    /\ pc[p] = "notify_post"
    /\ Call(p, "notify")
    /\ \/ /\ delivered' = [delivered EXCEPT ![p] = TRUE]
          /\ Goto(p, "respond")
       \/ Goto(p, "notify_sleep") /\ UNCHANGED delivered
       \/ /\ Raise(p, Exc("RequestException", "notify"), UnhandledResponse)
          /\ UNCHANGED delivered
    /\ UNCHANGED <<html, tmp, pushed, pages_status, host,
                   payload, attempt, delay, waited, reqVars, resolveVars>>

\* notify_evaluator: requests.post inside try; return on status 200
NotifyPost(p) ==
    /\ pc[p] = "notify_post"
    /\ Call(p, "notify")
    /\ \/ \* resp.status_code == 200: return
          /\ delivered' = [delivered EXCEPT ![p] = TRUE]
          /\ Goto(p, "respond")
       \/ \* any other status
          Goto(p, "notify_sleep") /\ UNCHANGED delivered
       \/ \* except Exception: logged
          Goto(p, "notify_sleep") /\ UNCHANGED delivered
    /\ UNCHANGED <<html, tmp, pushed, pages_status, host,
                   payload, attempt, delay, waited, reqVars, resolveVars>>

\* NotifySleep with a loop that runs one iteration too many
NotifySleep_OffByOne(p) ==
    /\ pc[p] = "notify_sleep"
    /\ waited'  = [waited EXCEPT ![p] = @ + delay[p]]
    /\ delay'   = [delay EXCEPT ![p] = @ * Backoff]
    /\ attempt' = [attempt EXCEPT ![p] = @ + 1]
    /\ IF attempt[p] + 1 <= MaxAttempts
       THEN Goto(p, "notify_post")
       ELSE Goto(p, "respond")
    /\ UNCHANGED <<calls, html, tmp, pushed, pages_status, host,
                   payload, delivered, reqVars, resolveVars>>

\* notify_evaluator: time.sleep(delay); delay *= 2; next iteration of range(5)
NotifySleep(p) ==
    /\ pc[p] = "notify_sleep"
    /\ waited'  = [waited EXCEPT ![p] = @ + delay[p]]
    /\ delay'   = [delay EXCEPT ![p] = @ * Backoff]
    /\ attempt' = [attempt EXCEPT ![p] = @ + 1]
    /\ IF attempt[p] + 1 < MaxAttempts
       THEN Goto(p, "notify_post")
       ELSE Goto(p, "respond")
    /\ UNCHANGED <<calls, html, tmp, pushed, pages_status, host,
                   payload, delivered, reqVars, resolveVars>>

\* Respond that waits for the evaluator's acknowledgement
Respond_WhenDelivered(p) ==
    /\ pc[p] = "respond"
    /\ delivered[p]
    /\ Return(p, SuccessResponse(repo_url[p], req[p]))
    /\ UNCHANGED <<calls, html, tmp, pushed, pages_status, host,
                   reqVars, resolveVars, notifyVars>>

\* return JSONResponse({"status": "success", ...})
Respond(p) ==
    /\ pc[p] = "respond"
    /\ Return(p, SuccessResponse(repo_url[p], req[p]))
    /\ UNCHANGED <<calls, html, tmp, pushed, pages_status, host,
                   reqVars, resolveVars, notifyVars>>

\* the response is sent; the call's locals are gone
Finish(p) ==
    /\ pc[p] = "done"
    /\ pc'            = [pc EXCEPT ![p] = "idle"]
    /\ req'           = [req EXCEPT ![p] = None]
    /\ resp'          = [resp EXCEPT ![p] = None]
    /\ error'         = [error EXCEPT ![p] = None]
    /\ calls'         = [calls EXCEPT ![p] = <<>>]
    /\ html'          = [html EXCEPT ![p] = <<>>]
    /\ is_update'     = [is_update EXCEPT ![p] = FALSE]
    /\ repo_url'      = [repo_url EXCEPT ![p] = <<>>]
    /\ clone_url'     = [clone_url EXCEPT ![p] = <<>>]
    /\ create_status' = [create_status EXCEPT ![p] = 0]
    /\ existed'       = [existed EXCEPT ![p] = FALSE]
    /\ pushed'        = [pushed EXCEPT ![p] = None]
    /\ pages_status'  = [pages_status EXCEPT ![p] = 0]
    /\ payload'       = [payload EXCEPT ![p] = None]
    /\ attempt'       = [attempt EXCEPT ![p] = 0]
    /\ delay'         = [delay EXCEPT ![p] = 0]
    /\ waited'        = [waited EXCEPT ![p] = 0]
    /\ delivered'     = [delivered EXCEPT ![p] = FALSE]
    /\ UNCHANGED <<tmp, host, served>>

\* one step of the handler on worker p
Step(p) ==
    \/ Authenticate(p) \/ Validate(p) \/ Generate(p)
    \/ RepoGet(p) \/ RepoCreate(p)
    \/ Clone(p) \/ ConfigEmail(p) \/ ConfigName(p) \/ WriteFiles(p)
    \/ Add(p) \/ Commit(p) \/ Push(p)
    \/ EnablePages(p) \/ NotifyPost(p) \/ NotifySleep(p)
    \/ Respond(p) \/ Finish(p)

\* api_endpoint is a coroutine without an await: on one event loop a request
\* is handled to its response before the next one is received
ReceiveNext == \E p \in Procs : \E r \in TaskRequest :
                   (\A q \in Procs : pc[q] = "idle") /\ Receive(p, r)

Next == ReceiveNext \/ \E p \in Procs : Step(p)

Spec == Init /\ [][Next]_vars

\* every call api_endpoint makes returns or raises, so a handler that can take
\* a step eventually takes it
LiveSpec == Init /\ [][Next]_vars /\ \A p \in Procs : WF_vars(Step(p))

\* requests sent to a deployment with several workers: the same task and round
ConcRequests ==
    {r \in TaskRequest : /\ r.secret = STUDENT_SECRET
                         /\ r.email = <<" ", "m", "E", " ">>
                         /\ r.task = <<" ", "d", " ">>
                         /\ r.round = 1
                         /\ r.brief = <<"say hi">>
                         /\ r.evaluation_url = "None"}

\* a request is dispatched to an idle worker while another one is being handled
ReceiveConc == \E p \in Procs : \E r \in ConcRequests : Receive(p, r)

NextConc == ReceiveConc \/ \E p \in Procs : Step(p)

\* the service run with more than one worker
SpecConc == Init /\ [][NextConc]_vars

\* ------------------------------------------------------------ properties
\* the request on worker p made the external call `what`
Called(p, what) == \E i \in 1..Len(calls[p]) : calls[p][i] = what

\* how many times the request on worker p made the external call `what`
Count(p, what) == Cardinality({i \in 1..Len(calls[p]) : calls[p][i] = what})

Handling(p) == pc[p] # "idle"
Done(p)     == pc[p] = "done"

\* C1: a request whose secret differs from the configured one is answered
\* 403 whatever its other fields are, and makes no external call at any point.
Thm_C1_WrongSecret ==
    \A p \in Procs :
        (Handling(p) /\ req[p].secret # STUDENT_SECRET) =>
            /\ calls[p] = <<>>
            /\ pc[p] \in {"auth", "done"}
            /\ Done(p) => resp[p] = ErrorResponse(403, "Invalid secret")

\* a wrong-secret request, otherwise acceptable, has been answered
Wit_C1_WrongSecret ==
    \E p \in Procs :
        /\ Done(p)
        /\ req[p].secret # STUDENT_SECRET
        /\ Lower(EmailOf(req[p])) = Lower(ALLOWED_EMAIL)
        /\ TaskOf(req[p]) # <<>>
        /\ req[p].round >= 1
        /\ resp[p].status_code = 403

\* C2 (as claimed): a request with the right secret and round < 1 is answered
\* 400, before any generator call and any repository-host call.
Claim_C2_RoundBelowOne ==
    \A p \in Procs :
        (Handling(p) /\ req[p].secret = STUDENT_SECRET /\ req[p].round < 1) =>
            /\ ~Called(p, "generate")
            /\ ~Called(p, "repo_get")
            /\ ~Called(p, "repo_create")
            /\ Done(p) => resp[p].status_code = 400

\* a valid request with round < 1 went on to the generator
Cex_C2_Reached ==
    \E p \in Procs : Handling(p) /\ req[p].round < 1 /\ Called(p, "generate")

\* notify_evaluator has returned to api_endpoint
NotifierReturned(p) == pc[p] \in {"respond", "done"} /\ payload[p] # None

\* 2^n
RECURSIVE Pow2(_)
Pow2(n) == IF n = 0 THEN 1 ELSE 2 * Pow2(n - 1)

\* C3: the notifier makes at most 5 attempts; exactly 5 when no attempt gets
\* the success status, and exactly n when attempt n is the first to get it,
\* after which no further attempt is made.
Thm_C3_Attempts ==
    \A p \in Procs :
        /\ Count(p, "notify") <= 5
        /\ delivered[p] => /\ pc[p] \in {"respond", "done"}
                           /\ Count(p, "notify") = attempt[p] + 1
        /\ (NotifierReturned(p) /\ ~delivered[p]) => Count(p, "notify") = 5

\* the notifier gave up after five failed attempts
Wit_C3_Exhausted ==
    \E p \in Procs :
        NotifierReturned(p) /\ ~delivered[p] /\ Count(p, "notify") = 5

\* the notifier returned on its third attempt
Wit_C3_ThirdAttempt ==
    \E p \in Procs :
        NotifierReturned(p) /\ delivered[p] /\ Count(p, "notify") = 3

\* C4 (as claimed): the notifier sleeps only between attempts: 2^(k-2) before
\* attempt k, nothing before the first and nothing after the last, so a call
\* whose five attempts all fail has waited 1+2+4+8 = 15 in total.
Claim_C4_Backoff ==
    \A p \in Procs :
        /\ pc[p] = "notify_post" => waited[p] = Pow2(Count(p, "notify")) - 1
        /\ NotifierReturned(p) => waited[p] = Pow2(Count(p, "notify") - 1) - 1

\* C5: when the push succeeded and all five notification attempts failed,
\* the notifier raises nothing and the caller is answered 200 "success".
Thm_C5_SilentExhaustion ==
    \A p \in Procs :
        (pushed[p] # None /\ Count(p, "notify") = 5 /\ ~delivered[p]
           /\ pc[p] \in {"respond", "done"}) =>
            /\ error[p] = None
            /\ Done(p) => /\ resp[p].status_code = 200
                          /\ resp[p].status = "success"

\* a request was answered after five failed notification attempts
Wit_C5_SilentExhaustion ==
    \E p \in Procs :
        Done(p) /\ pushed[p] # None /\ Count(p, "notify") = 5 /\ ~delivered[p]

\* the hosting request of worker p's request did not succeed
PagesFailed(p) == Called(p, "pages") /\ pages_status[p] # HttpCreated

\* C6 (as claimed): whenever the hosting toggle fails after a successful push,
\* the request still contacts the evaluator and is answered 200.
Claim_C6_PagesAdvisory ==
    \A p \in Procs :
        (Done(p) /\ pushed[p] # None /\ PagesFailed(p)) =>
            /\ Called(p, "notify")
            /\ resp[p].status_code = 200

\* C7: when the host rejects the create request the request ends with 500,
\* the create is issued once, and no publish step, hosting toggle or
\* notification is performed.
Thm_C7_CreateRejected ==
    \A p \in Procs :
        (Handling(p) /\ create_status[p] \notin {0, HttpCreated}) =>
            /\ Done(p)
            /\ resp[p].status_code = 500
            /\ Count(p, "repo_create") = 1
            /\ \A c \in {"git_clone", "git_config_email", "git_config_name",
                         "write_files", "git_add", "git_commit", "git_push",
                         "pages", "notify"} : ~Called(p, c)

\* the host rejected the create of a repository that does not exist
Wit_C7_CreateRejected ==
    \E p \in Procs :
        /\ Done(p)
        /\ create_status[p] = 422
        /\ RepoNameOf(req[p]) \notin DOMAIN host

PublishSteps == {"git_clone", "git_config_email", "git_config_name",
                 "write_files", "git_add", "git_commit", "git_push"}

\* C8: when a publish step fails the request ends with a 500 response, the
\* failing step is the last call it makes, and neither the hosting toggle nor
\* the notifier runs.
Thm_C8_PublishFailure ==
    \A p \in Procs :
        (error[p] # None /\ error[p].at \in PublishSteps) =>
            /\ Done(p)
            /\ resp[p].status_code = 500
            /\ calls[p][Len(calls[p])] = error[p].at
            /\ Count(p, error[p].at) = 1
            /\ ~Called(p, "pages")
            /\ ~Called(p, "notify")

\* a commit failed
Wit_C8_PublishFailure ==
    \E p \in Procs : error[p] # None /\ error[p].at = "git_commit"

\* C9: a round-1 publish to a repository the resolver created commits
\* "initial commit"; a round >= 2 publish to a repository the resolver found
\* existing commits "round {round} update" with the request's round.
Thm_C9_CommitMessage ==
    \A p \in Procs :
        pushed[p] # None =>
            /\ (~is_update[p] /\ req[p].round = 1) =>
                   pushed[p].message = <<"initial commit">>
            /\ (is_update[p] /\ req[p].round >= 2) =>
                   pushed[p].message =
                       <<"round ">> \o IntStr(req[p].round) \o <<" update">>

\* a round >= 2 request pushed to a repository that existed
Wit_C9_Update ==
    \E p \in Procs : pushed[p] # None /\ is_update[p] /\ req[p].round >= 2

\* a round-1 request pushed to a repository it created
Wit_C9_Initial ==
    \E p \in Procs : pushed[p] # None /\ ~is_update[p] /\ req[p].round = 1

\* the text of a file of a tree, empty when the tree lacks it
FileText(files, path) == IF path \in DOMAIN files THEN files[path] ELSE <<>>

\* text b is text a with something appended
Extends(a, b) == Len(a) < Len(b) /\ SubSeq(b, 1, Len(a)) = a

\* a round >= 2 request pushed to a repository that existed
UpdatePush(p) == pushed[p] # None /\ is_update[p] /\ req[p].round >= 2

\* C10 (as claimed): a round >= 2 publish to an existing repository appends:
\* the pushed README.md and index.html are the previous ones with text added.
Claim_C10_AppendOnly ==
    \A p \in Procs :
        UpdatePush(p) =>
            /\ Extends(FileText(pushed[p].previous, "README.md"),
                       pushed[p].files["README.md"])
            /\ Extends(FileText(pushed[p].previous, "index.html"),
                       pushed[p].files["index.html"])

\* C10 (amended): a round >= 2 publish to an existing repository overwrites:
\* the pushed README.md is the description generated for this request, the
\* pushed index.html is the page generated for this request, whatever the
\* two files held before.
Thm_C10_Overwrite ==
    \A p \in Procs :
        UpdatePush(p) =>
            /\ pushed[p].files["README.md"] = ReadmeText(req[p])
            /\ pushed[p].files["index.html"] = html[p]

\* an update replaced the README.md of a repository an earlier push had filled
Wit_C10_Overwrite ==
    \E p \in Procs :
        /\ UpdatePush(p)
        /\ "index.html" \in DOMAIN pushed[p].previous
        /\ pushed[p].previous["README.md"] # pushed[p].files["README.md"]
        /\ ~Extends(pushed[p].previous["README.md"], pushed[p].files["README.md"])

\* the existence query of worker p's request was answered
Resolved(p) ==
    /\ Called(p, "repo_get")
    /\ ~(error[p] # None /\ error[p].at = "repo_get")

\* the repository of round 1 of the task of worker p's request has been
\* created and pushed to
RoundOnePublished(p) ==
    LET first == RepoName(TaskOf(req[p]), 1) IN
        first \in DOMAIN host /\ host[first].head >= 2

\* C11 (as claimed): once round 1 of a task is published, a round-2 request
\* for the task finds the repository existing, issues no create request and
\* publishes as an update.
Claim_C11_RoundTwoUpdates ==
    \A p \in Procs :
        (Handling(p) /\ req[p].round = 2 /\ RoundOnePublished(p) /\ Resolved(p)) =>
            /\ is_update[p]
            /\ ~Called(p, "repo_create")
            /\ pushed[p] # None =>
                   pushed[p].message = <<"round ", "2", " update">>

\* C11 (amended): once round 1 of a task is published, a round-2 request for
\* the task resolves the repository named {task}-round2, another one than
\* {task}-round1: it is an update only if {task}-round2 was itself on the
\* host; otherwise the request issues a create and what it publishes is the
\* "initial commit" of the new repository; the round-1 repository keeps the
\* commit of round 1.
Thm_C11_RoundTwoOwnRepo ==
    \A p \in Procs :
        (Handling(p) /\ req[p].round = 2 /\ RoundOnePublished(p) /\ Resolved(p)) =>
            LET first  == Strip(req[p].task) \o <<"-", "r", "o", "u", "n", "d", "1">>
                second == Strip(req[p].task) \o <<"-", "r", "o", "u", "n", "d", "2">>
            IN  /\ RepoNameOf(req[p]) = second
                /\ second # first
                /\ is_update[p] => existed[p]
                /\ ~existed[p] => ~is_update[p]
                /\ (pushed[p] # None /\ ~existed[p]) =>
                       /\ Called(p, "repo_create")
                       /\ pushed[p].message = <<"initial commit">>
                       /\ host[second].files = pushed[p].files
                /\ host[first].message \in
                       {<<"initial commit">>, <<"round ", "1", " update">>}

\* after round 1 was published, a round-2 request created and filled a
\* second repository
Wit_C11_RoundTwoOwnRepo ==
    \E p \in Procs :
        /\ Handling(p) /\ req[p].round = 2 /\ RoundOnePublished(p)
        /\ pushed[p] # None /\ ~existed[p] /\ Called(p, "repo_create")

\* C12 (as claimed): once the repository of (task, round) is on the host,
\* every later resolve for it finds it and issues no create request, and a
\* create request succeeds only for a name the host does not have.
Claim_C12_ResolverIdempotent ==
    /\ [](\A p \in Procs :
            (Handling(p) /\ existed[p] /\ Resolved(p)) =>
                /\ is_update[p]
                /\ repo_url[p] = HtmlUrl(RepoNameOf(req[p]))
                /\ ~Called(p, "repo_create"))
    /\ [][\A p \in Procs :
            (create_status[p] # HttpCreated /\ create_status'[p] = HttpCreated) =>
                RepoNameOf(req[p]) \notin DOMAIN host]_vars

\* C13: a request with the right secret whose email is not the allowed one
\* (case-insensitively, after trimming) or whose task is empty after
\* trimming is answered 400 without any external call; the secret is
\* checked first, so a wrong secret with a wrong email is answered 403.
Thm_C13_Validation ==
    \A p \in Procs :
        Handling(p) =>
            LET bad_email == Lower(Strip(req[p].email)) # <<"m", "e">>
                bad_task  == Strip(req[p].task) = <<>>
            IN  /\ (req[p].secret = STUDENT_SECRET /\ (bad_email \/ bad_task)) =>
                    /\ calls[p] = <<>>
                    /\ pc[p] \in {"auth", "validate", "done"}
                    /\ Done(p) => resp[p].status_code = 400
                /\ (req[p].secret # STUDENT_SECRET /\ bad_email /\ Done(p)) =>
                    resp[p].status_code = 403

\* a request with the right secret, the allowed email and a blank task was
\* answered
Wit_C13_EmptyTask ==
    \E p \in Procs :
        /\ Done(p)
        /\ req[p].secret = STUDENT_SECRET
        /\ Lower(Strip(req[p].email)) = <<"m", "e">>
        /\ Strip(req[p].task) = <<>>
        /\ resp[p].status_code = 400

\* the stage an external call belongs to
StageOf(c) ==
    CASE c = "generate" -> 1
      [] c \in {"repo_get", "repo_create"} -> 2
      [] c \in PublishSteps -> 3
      [] c = "pages" -> 4
      [] c = "notify" -> 5

\* C14: within a request the stages run in the order Generating, Resolving,
\* Publishing, Activating, Notifying and never go back: the host is queried
\* only after generation succeeded, the clone starts only after the
\* repository was resolved or created, the hosting toggle is requested only
\* after the push succeeded, and the notifier starts only after the toggle.
Thm_C14_StageOrder ==
    \A p \in Procs :
        /\ \A i, j \in 1..Len(calls[p]) :
               i < j => StageOf(calls[p][i]) <= StageOf(calls[p][j])
        /\ Called(p, "repo_get") =>
               /\ calls[p][1] = "generate"
               /\ ~(error[p] # None /\ error[p].at = "generate")
        /\ Called(p, "git_clone") =>
               /\ Resolved(p)
               /\ is_update[p] \/ create_status[p] = HttpCreated
               /\ RepoNameOf(req[p]) \in DOMAIN host
        /\ Called(p, "pages") => pushed[p] # None
        /\ Called(p, "notify") =>
               /\ Called(p, "pages")
               /\ pages_status[p] # 0

\* a request went through all five stages
Wit_C14_AllStages ==
    \E p \in Procs :
        /\ Done(p)
        /\ \A c \in {"generate", "repo_get", "repo_create", "git_clone",
                     "git_push", "pages", "notify"} : Called(p, c)

\* C15: in a request the generator call, the existence query, the create
\* request, each git step and the hosting toggle are made at most once,
\* whether they succeed or fail; only the evaluator POST may be repeated.
Thm_C15_NoRetryButNotify ==
    \A p \in Procs :
        \A c \in {"generate", "repo_get", "repo_create", "pages"} \cup PublishSteps :
            Count(p, c) <= 1

\* a request repeated the evaluator POST after a failed create-free run
Wit_C15_NotifyRepeated ==
    \E p \in Procs : Count(p, "notify") >= 2 /\ Count(p, "pages") = 1

\* C16: every request eventually reaches its response and produces exactly
\* one, with status 403, 400, 500 or 200, provided every external call returns
\* or fails; the notifier stops after at most five attempts even if the
\* evaluator never answers 200.
Thm_C16_Responds ==
    /\ \A p \in Procs : Handling(p) ~> Done(p)
    /\ [](\A p \in Procs :
             /\ Done(p) => /\ resp[p] # None
                           /\ resp[p].status_code \in {403, 400, 500, HttpOk}
             /\ Handling(p) /\ ~Done(p) => resp[p] = None
             /\ Count(p, "notify") <= MaxAttempts)
    /\ [][\A p \in Procs : resp[p] # None => resp'[p] \in {resp[p], None}]_vars

\* a request was answered although the evaluator never acknowledged
Wit_C16_AnsweredAfterExhaustion ==
    \E p \in Procs :
        /\ Done(p)
        /\ resp[p].status_code = HttpOk
        /\ Count(p, "notify") = MaxAttempts
        /\ ~delivered[p]

\* both workers saw the name free and both asked the host to create it
CreateRace ==
    /\ \A p \in Procs : /\ Called(p, "repo_create")
                        /\ ~existed[p]
                        /\ create_status[p] # 0
    /\ RepoNameOf(req[1]) = RepoNameOf(req[2])

InWithBlock == {"config_email", "config_name", "write", "add", "commit", "push"}

\* C18: the working directory of the publish stage exists only while the
\* handler is inside the with block; it is gone after the push succeeded,
\* after any failed step and after an exception, hence whenever the request
\* has its response.
Thm_C18_TempDirRemoved ==
    \A p \in Procs :
        /\ tmp[p] # None => pc[p] \in InWithBlock
        /\ Done(p) => tmp[p] = None
        /\ pushed[p] # None => tmp[p] = None

\* a working directory was filled and the request then ended, either way
Wit_C18_RemovedAfterFailure ==
    \E p \in Procs :
        /\ Done(p)
        /\ Called(p, "write_files")
        /\ error[p] # None
        /\ error[p].at \in {"write_files", "git_commit", "git_push"}
        /\ tmp[p] = None

Wit_C18_RemovedAfterPush ==
    \E p \in Procs : Done(p) /\ pushed[p] # None /\ tmp[p] = None

\* C19: the evaluator is contacted exactly for the requests that end with
\* 200: a request that ends with 403, 400 or 500 made no notification
\* attempt, a request that ends with 200 made at least one, and every payload
\* sent has status "success".
Thm_C19_NotifyIffSuccess ==
    \A p \in Procs :
        /\ Done(p) => (Called(p, "notify") <=> resp[p].status_code = HttpOk)
        /\ Called(p, "notify") => /\ payload[p] # None
                                  /\ payload[p].status = "success"
                                  /\ error[p] = None

\* one request ended with 200 after notifying
Wit_C19_Notified ==
    \E p \in Procs :
        /\ Done(p)
        /\ resp[p].status_code = HttpOk
        /\ Count(p, "notify") >= 1
        /\ payload[p].status = "success"

\* one request ended with 500 late in the pipeline, evaluator not contacted
Wit_C19_NotNotified ==
    \E p \in Procs :
        /\ Done(p)
        /\ resp[p].status_code = 500
        /\ Called(p, "pages")
        /\ ~Called(p, "notify")

\* the request on worker p has committed
Committed(p) ==
    \/ pushed[p] # None
    \/ tmp[p] # None /\ tmp[p].commit # <<>>

CommittedMsg(p) == IF pushed[p] # None THEN pushed[p].message ELSE tmp[p].commit

Wit_C20_LaterRoundCreates ==
    \E p \in Procs :
        /\ pushed[p] # None
        /\ req[p].round >= 2
        /\ ~existed[p]
        /\ Called(p, "repo_create")
        /\ pushed[p].message = <<"initial commit">>

====
